---- MODULE Spec2Model ----
(***************************************************************************)
(* Model of the accent-trainer client (the App component and its data).    *)
(*                                                                         *)
(* The component is a React function component: every handler is a closure *)
(* over the values of the render that created it.  Handlers that React     *)
(* re-creates on every render (nextSentence, resetSentence, the model      *)
(* buttons) read the current state; startRecording is memoised with        *)
(* useCallback(..., [model]) and therefore keeps the processRecording and  *)
(* simulateResults of the render in which `model` last changed, together   *)
(* with that render's currentSentence and model.  The model carries that   *)
(* captured render explicitly (startRecordingClosure).                     *)
(*                                                                         *)
(* Every await is a suspension point: the part of a handler before the     *)
(* await and the part after it are separate actions.                       *)
(***************************************************************************)
EXTENDS Integers, Sequences, FiniteSets, TLC

\* ------------------------------------------------------------------ bounds

\* Record taps (calls of startRecording) in one behaviour.
MaxTaps == 2

\* Number of Math.random streams the fallback is tried with.
NumSeeds == 1

\* Next actions in one behaviour: one lap of the sentence list and one more.
MaxNexts == 13

\* Entries of the comparisons the score is computed for.
MaxTotal == 40

\* Taps on phoneme chips (calls of playPhoneme) in one behaviour.
MaxPlays == 2

\* The chips of each row of the results panel that are tapped: the first MaxChip.
MaxChip == 1

\* Taps on Replay (calls of replayRecording) in one behaviour.
MaxReplays == 2

\* ------------------------------------------------------------ reference data

\* Phoneme symbols are written in ASCII (X-SAMPA style), one name per IPA symbol
\* of the source: D = U+00F0 (eth), T = U+03B8 (theta), @ = U+0259 (schwa),
\* E = U+025B, I = U+026A, R = U+0279, V = U+028C, O = U+0254, N = U+014B,
\* ae = U+00E6, A = U+0251, 3 = U+025C, U = U+028A, g = U+0261, 4 = U+027E,
\* tS = U+0074 U+0283, S = U+0283, @r = U+025A.  The mapping is one to one; the
\* plain letters of the source (a, j, s, z, ...) stand for themselves.

\* words.ts: sentenceList (the phonemes field; sentence text and ipa are display only).
sentenceList ==
  << [sentence |-> "The weather is nice.",
      phonemes |-> <<"D", "@", "w", "E", "D", "@", "I", "z", "n", "a", "j", "s">>],
     [sentence |-> "I think so.",
      phonemes |-> <<"a", "j", "T", "I", "N", "k", "s", "o", "w">>],
     [sentence |-> "This is my brother.",
      phonemes |-> <<"D", "I", "s", "I", "z", "m", "a", "j", "b", "R", "V", "D", "@">>],
     [sentence |-> "Where is the water?",
      phonemes |-> <<"w", "E", "R", "I", "z", "D", "@", "w", "O", "t", "@">>],
     [sentence |-> "Three things matter.",
      phonemes |-> <<"T", "R", "i", "T", "I", "N", "z", "m", "ae", "t", "@">>],
     [sentence |-> "Thank you very much.",
      phonemes |-> <<"T", "ae", "N", "k", "j", "u", "v", "E", "R", "i", "m", "V", "tS">>],
     [sentence |-> "What do you think?",
      phonemes |-> <<"w", "V", "t", "d", "u", "j", "u", "T", "I", "N", "k">>],
     [sentence |-> "Father and mother.",
      phonemes |-> <<"f", "A", "D", "@", "ae", "n", "d", "m", "V", "D", "@">>],
     [sentence |-> "Right or wrong?",
      phonemes |-> <<"R", "a", "j", "t", "O", "R", "R", "O", "N">>],
     [sentence |-> "Hello world.",
      phonemes |-> <<"h", "@", "l", "o", "w", "w", "3", "R", "l", "d">>],
     [sentence |-> "Good morning.",
      phonemes |-> <<"g", "U", "d", "m", "O", "R", "n", "I", "N">>],
     [sentence |-> "How are you?",
      phonemes |-> <<"h", "a", "w", "A", "R", "j", "u">>] >>

\* sentenceList[i] of the source, whose indices start at 0.
SentenceAt(i) == sentenceList[i + 1]

\* getRandomSubstitution: the substitutions table.
substitutions ==
  [p \in {"T", "D", "R", "ae", "V", "v", "w"} |->
     CASE p = "T" -> <<"t", "s", "f">>
       [] p = "D" -> <<"d", "z", "v">>
       [] p = "R" -> <<"4", "l", "w">>
       [] p = "ae" -> <<"E", "a", "e">>
       [] p = "V" -> <<"a", "@", "o">>
       [] p = "v" -> <<"w", "b", "f">>
       [] p = "w" -> <<"v", "u">>]

\* words.ts: phonemeInfo (the example field, as its sequence of characters;
\* description and tip are display only).
phonemeInfo ==
  [p \in {"T", "D", "R", "@r", "ae", "V", "A", "O", "E", "I", "i", "u", "@", "N", "S", "tS", "w", "v", "a", "j", "o", "3", "U", "g"} |->
     CASE p = "T" ->
            \* "think, three, bath"
            [example |-> << "t", "h", "i", "n", "k", ",", " ", "t", "h", "r", "e", "e",
                        ",", " ", "b", "a", "t", "h" >>]
       [] p = "D" ->
            \* "the, this, brother"
            [example |-> << "t", "h", "e", ",", " ", "t", "h", "i", "s", ",", " ", "b",
                        "r", "o", "t", "h", "e", "r" >>]
       [] p = "R" ->
            \* "red, right, car"
            [example |-> << "r", "e", "d", ",", " ", "r", "i", "g", "h", "t", ",", " ",
                        "c", "a", "r" >>]
       [] p = "@r" ->
            \* "water, butter, never"
            [example |-> << "w", "a", "t", "e", "r", ",", " ", "b", "u", "t", "t", "e",
                        "r", ",", " ", "n", "e", "v", "e", "r" >>]
       [] p = "ae" ->
            \* "cat, man, hand"
            [example |-> << "c", "a", "t", ",", " ", "m", "a", "n", ",", " ", "h", "a",
                        "n", "d" >>]
       [] p = "V" ->
            \* "cup, love, mother"
            [example |-> << "c", "u", "p", ",", " ", "l", "o", "v", "e", ",", " ", "m",
                        "o", "t", "h", "e", "r" >>]
       [] p = "A" ->
            \* "father, calm, spa"
            [example |-> << "f", "a", "t", "h", "e", "r", ",", " ", "c", "a", "l", "m",
                        ",", " ", "s", "p", "a" >>]
       [] p = "O" ->
            \* "thought, caught, all"
            [example |-> << "t", "h", "o", "u", "g", "h", "t", ",", " ", "c", "a", "u",
                        "g", "h", "t", ",", " ", "a", "l", "l" >>]
       [] p = "E" ->
            \* "bed, head, said"
            [example |-> << "b", "e", "d", ",", " ", "h", "e", "a", "d", ",", " ", "s",
                        "a", "i", "d" >>]
       [] p = "I" ->
            \* "bit, will, this"
            [example |-> << "b", "i", "t", ",", " ", "w", "i", "l", "l", ",", " ", "t",
                        "h", "i", "s" >>]
       [] p = "i" ->
            \* "see, we, easy"
            [example |-> << "s", "e", "e", ",", " ", "w", "e", ",", " ", "e", "a", "s",
                        "y" >>]
       [] p = "u" ->
            \* "too, blue, through"
            [example |-> << "t", "o", "o", ",", " ", "b", "l", "u", "e", ",", " ", "t",
                        "h", "r", "o", "u", "g", "h" >>]
       [] p = "@" ->
            \* "about, the, banana"
            [example |-> << "a", "b", "o", "u", "t", ",", " ", "t", "h", "e", ",", " ",
                        "b", "a", "n", "a", "n", "a" >>]
       [] p = "N" ->
            \* "sing, thing, going"
            [example |-> << "s", "i", "n", "g", ",", " ", "t", "h", "i", "n", "g", ",",
                        " ", "g", "o", "i", "n", "g" >>]
       [] p = "S" ->
            \* "she, fish, action"
            [example |-> << "s", "h", "e", ",", " ", "f", "i", "s", "h", ",", " ", "a",
                        "c", "t", "i", "o", "n" >>]
       [] p = "tS" ->
            \* "church, watch, much"
            [example |-> << "c", "h", "u", "r", "c", "h", ",", " ", "w", "a", "t", "c",
                        "h", ",", " ", "m", "u", "c", "h" >>]
       [] p = "w" ->
            \* "we, water, with"
            [example |-> << "w", "e", ",", " ", "w", "a", "t", "e", "r", ",", " ", "w",
                        "i", "t", "h" >>]
       [] p = "v" ->
            \* "very, love, never"
            [example |-> << "v", "e", "r", "y", ",", " ", "l", "o", "v", "e", ",", " ",
                        "n", "e", "v", "e", "r" >>]
       [] p = "a" ->
            \* "my, high, time"
            [example |-> << "m", "y", ",", " ", "h", "i", "g", "h", ",", " ", "t", "i",
                        "m", "e" >>]
       [] p = "j" ->
            \* "yes, you, beyond"
            [example |-> << "y", "e", "s", ",", " ", "y", "o", "u", ",", " ", "b", "e",
                        "y", "o", "n", "d" >>]
       [] p = "o" ->
            \* "go, so, no"
            [example |-> << "g", "o", ",", " ", "s", "o", ",", " ", "n", "o" >>]
       [] p = "3" ->
            \* "bird, world, hurt"
            [example |-> << "b", "i", "r", "d", ",", " ", "w", "o", "r", "l", "d", ",",
                        " ", "h", "u", "r", "t" >>]
       [] p = "U" ->
            \* "book, good, put"
            [example |-> << "b", "o", "o", "k", ",", " ", "g", "o", "o", "d", ",", " ",
                        "p", "u", "t" >>]
       [] p = "g" ->
            \* "go, big, dog"
            [example |-> << "g", "o", ",", " ", "b", "i", "g", ",", " ", "d", "o", "g" >>] ]

ModelType == {"allosaurus", "wav2vec2"}

\* ------------------------------------------------------------ absent values

\* null / undefined of the source: an optional value is <<>> or <<v>>.
Null == <<>>

Some(v) == <<v>>

\* JavaScript truthiness of an optional array (every array, also [], is truthy).
Truthy(opt) == opt # Null

\* A phoneme result's `actual: string | null`; null and "" are both falsy and
\* the source only ever tests `actual` for truthiness.
NoActual == ""

\* ------------------------------------------------------------- Math.random

\* Math.random(), in twelfths: the k-th draw of stream `seed` is Rand(seed, k) / 12.
\* Twelfths decide both `> 0.25` and Math.floor(r * 3), Math.floor(r * 2) exactly.
RandLevels == 12

Rand(seed, k) == (seed + 5 * k) % RandLevels

\* Math.random() > 0.25 for the draw n / 12.
AboveQuarter(n) == 4 * n > RandLevels

\* ------------------------------------------------------------------ state

VARIABLES
  currentIndex,          \* useState(0)
  recordingState,        \* useState<RecordingState>('idle')
  results,               \* useState<PhonemeResult[] | null>(null)
  rawPhonemes,           \* useState<string>('')
  model,                 \* useState<ModelType>('allosaurus')
  recordedAudioUrl,      \* useState<string | null>(null); 0 is null, n is the n-th object URL
  mediaRecorderRef,      \* useRef<MediaRecorder | null>(null); 0 is null
  startRecordingClosure, \* the render captured by the memoised startRecording
  calls,                 \* one entry per startRecording call: its recorder and stream
  requests,              \* one entry per /api/analyze request
  objectUrls,            \* URL.createObjectURL / revokeObjectURL bookkeeping
  lastResponse,          \* history: how the fetch that ended last ended
  substitutionCalls,     \* history: the calls of getRandomSubstitution made by the
                         \* continuation of that fetch, as argument and value returned
  nextsTaken,            \* history: the number of Next actions so far
  ignoredStop,           \* history: the state at the last call of stopRecording
                         \* that the record button did not make ("none": no such call)
  playingPhoneme,        \* useState<string | null>(null)
  audioRef,              \* useRef<HTMLAudioElement | null>(null); 0 is null, n the Audio of play n
  plays,                 \* one entry per playPhoneme call
  utterances,            \* the speechSynthesis queue: the calls whose utterance is in it
  audioUrls,             \* createObjectURL / revokeObjectURL bookkeeping of synthesized audio
  playbackRef,           \* useRef<HTMLAudioElement | null>(null); 0 is null, n the Audio of replay n
  replays                \* one entry per replayRecording call: its Audio

\* The session, its recorders and requests.
session == <<currentIndex, recordingState, results, rawPhonemes, model,
             recordedAudioUrl, mediaRecorderRef, startRecordingClosure,
             calls, requests, objectUrls, lastResponse, substitutionCalls,
             nextsTaken, ignoredStop>>

\* Phoneme playback and replay.
playback == <<playingPhoneme, audioRef, plays, utterances, audioUrls,
              playbackRef, replays>>

vars == <<session, playback>>

CallIds == 1 .. MaxTaps

\* ------------------------------------------------------- pure computations

\* Variant of getRandomSubstitution with a default row for phonemes that have
\* no entry (substitutions[phoneme] || substitutions['T']): C7 depends on the
\* table lookup.
getRandomSubstitutionDefaultRow(phoneme, n) ==
  LET subs == IF phoneme \in DOMAIN substitutions
                THEN substitutions[phoneme]
                ELSE substitutions["T"]
  IN  subs[((n * Len(subs)) \div RandLevels) + 1]

\* getRandomSubstitution(phoneme), drawing Math.random() = n / 12:
\* subs ? subs[Math.floor(Math.random() * subs.length)] : phoneme.
getRandomSubstitution(phoneme, n) ==
  IF phoneme \in DOMAIN substitutions
    THEN substitutions[phoneme][((n * Len(substitutions[phoneme])) \div RandLevels) + 1]
    ELSE phoneme

\* Whether getRandomSubstitution(phoneme) consumes a draw of Math.random.
SubstitutionDraws(phoneme) == IF phoneme \in DOMAIN substitutions THEN 1 ELSE 0

\* One callback of currentSentence.phonemes.map in simulateResults, the stream
\* standing at draw k: the object built, and the draws it consumed.  The
\* properties are evaluated in order: actual (one draw, and the substitution's
\* draw when the first is <= 0.25), then correct (one draw).
SimulatedEntry(p, seed, k) ==
  LET keep  == AboveQuarter(Rand(seed, k))
      used  == IF keep THEN 1 ELSE 1 + SubstitutionDraws(p)
      act   == IF keep THEN p ELSE getRandomSubstitution(p, Rand(seed, k + 1))
  IN  [entry |-> [expected |-> p,
                  actual   |-> act,
                  correct  |-> AboveQuarter(Rand(seed, k + used))],
       calls |-> IF keep THEN {} ELSE {[phoneme |-> p, returned |-> act]},
       draws |-> used + 1]

RECURSIVE SimulatedFrom(_, _, _, _)
\* The entries of positions i .. Len(phonemes), the stream standing at draw k.
\* (The entry and the next draw are bound as values, so that each is computed
\* once.)
SimulatedFrom(phonemes, i, seed, k) ==
  IF i > Len(phonemes)
    THEN <<>>
    ELSE CHOOSE rest \in
           { <<e.entry>> \o SimulatedFrom(phonemes, i + 1, seed, next)
               : <<e, next>> \in
                   { <<x, k + x.draws>> : x \in {SimulatedEntry(phonemes[i], seed, k)} } }
           : TRUE

RECURSIVE SimulatedCallsFrom(_, _, _, _)
\* The calls of getRandomSubstitution made for positions i .. Len(phonemes), the
\* stream standing at draw k.
SimulatedCallsFrom(phonemes, i, seed, k) ==
  IF i > Len(phonemes)
    THEN {}
    ELSE CHOOSE all \in
           { e.calls \cup SimulatedCallsFrom(phonemes, i + 1, seed, next)
               : <<e, next>> \in
                   { <<x, k + x.draws>> : x \in {SimulatedEntry(phonemes[i], seed, k)} } }
           : TRUE

\* The calls of getRandomSubstitution that simulateResults makes.
SimulatedCalls(phonemes, seed) == SimulatedCallsFrom(phonemes, 1, seed, 0)

\* simulateResults: `simulated`, for the sentence of the captured render.
Simulated(phonemes, seed) == SimulatedFrom(phonemes, 1, seed, 0)

\* r.actual || r.expected
ActualOrExpected(r) == IF r.actual # NoActual THEN r.actual ELSE r.expected

\* Array.prototype.join(' '): the elements, a single space between neighbours.
Join(tokens) ==
  LET joined[i \in 0 .. Len(tokens)] ==
        IF i = 0 THEN ""
        ELSE IF i = 1 THEN tokens[1]
        ELSE joined[i - 1] \o " " \o tokens[i]
  IN  joined[Len(tokens)]

\* simulated.map(r => r.actual || r.expected).join(' ')
SimulatedRaw(simulated) ==
  Join([i \in 1 .. Len(simulated) |-> ActualOrExpected(simulated[i])])

\* ------------------------------------------------------ the analyze backend

\* A comparison the backend returns for `expected`: one entry per expected
\* phoneme.  "match": every phoneme recognised; "short": the recogniser emitted
\* one phoneme fewer, so the last position has no actual and is not correct.
BackendComparison(expected, pattern) ==
  [i \in 1 .. Len(expected) |->
     IF pattern = "short" /\ i = Len(expected)
       THEN [expected |-> expected[i], actual |-> NoActual, correct |-> FALSE]
       ELSE [expected |-> expected[i], actual |-> expected[i], correct |-> TRUE]]

\* The phonemes the recogniser emitted, for the same pattern.
BackendPhonemes(expected, pattern) ==
  IF pattern = "short" THEN SubSeq(expected, 1, Len(expected) - 1) ELSE expected

\* The JSON bodies of a success response: `comparison` with `raw`; `comparison`
\* with `phonemes` only; `comparison` with neither; and a body that has `raw` but
\* lacks `comparison`.
BackendData(expected) ==
  { [comparison |-> Some(BackendComparison(expected, "match")),
     raw        |-> Some(Join(BackendPhonemes(expected, "match"))),
     phonemes   |-> Some(BackendPhonemes(expected, "match"))],
    [comparison |-> Some(BackendComparison(expected, "short")),
     raw        |-> Null,
     phonemes   |-> Some(BackendPhonemes(expected, "short"))],
    [comparison |-> Some(BackendComparison(expected, "match")),
     raw        |-> Null,
     phonemes   |-> Null],
    [comparison |-> Null,
     raw        |-> Some(Join(BackendPhonemes(expected, "match"))),
     phonemes   |-> Null] }

NoData == [comparison |-> Null, raw |-> Null, phonemes |-> Null]

\* How the fetch of /api/analyze ends: a success response with a JSON body, a
\* non-success status, a rejected fetch, or a body that is not JSON.
Responses(expected) ==
  { [kind |-> "ok", data |-> d] : d \in BackendData(expected) }
  \cup { [kind |-> k, data |-> NoData] : k \in {"status", "transport", "json"} }

\* The ways a request for each sentence of the list can end, computed once.
ResponsesMemo ==
  { <<sentenceList[i].phonemes, Responses(sentenceList[i].phonemes)>>
      : i \in 1 .. Len(sentenceList) }

ResponsesTo(expected) == (CHOOSE t \in ResponsesMemo : t[1] = expected)[2]

\* --------------------------------------------------------- processRecording

\* currentSentence as processRecording and simulateResults see it: the sentence
\* of the render that the startRecording call was created in.
CapturedSentence(call) == SentenceAt(call.index)

\* `model` as processRecording sees it.
CapturedModel(call) == call.model

\* The microphone stream of a call: acquired when getUserMedia resolves
\* (the call starts recording) and released by stream.getTracks().forEach(track
\* => track.stop()) in the recorder's onstop, nowhere else.
StreamOpen(call) == call.status \in {"recording", "stopping"}

\* simulateResults: the three state updates.
simulateResults(phonemes, seed) ==
  CHOOSE updates \in
    { [results        |-> Some(simulated),
       rawPhonemes    |-> SimulatedRaw(simulated),
       recordingState |-> "results",
       substitutions  |-> SimulatedCalls(phonemes, seed)]
        : simulated \in {Simulated(phonemes, seed)} }
    : TRUE

\* data.raw || data.phonemes.join(' ') throws a TypeError when raw is falsy and
\* phonemes is undefined.
RawThrows(data) ==
  /\ ~(data.raw # Null /\ data.raw[1] # "")
  /\ data.phonemes = Null

\* data.raw || data.phonemes.join(' '), when it does not throw.
RawOf(data) ==
  IF data.raw # Null /\ data.raw[1] # "" THEN data.raw[1] ELSE Join(data.phonemes[1])

\* The try block of processRecording after the fetch: the three state updates
\* of a success response whose body parses and has raw or phonemes.
SuccessUpdates(data) ==
  [results        |-> data.comparison,
   rawPhonemes    |-> RawOf(data),
   recordingState |-> "results",
   substitutions  |-> {}]

\* simulateResults depends only on the captured sentence and on the stream of
\* draws: its value for every sentence of the list, computed once.
simulateResultsMemo ==
  { <<sentenceList[i].phonemes, seed, simulateResults(sentenceList[i].phonemes, seed)>>
      : i \in 1 .. Len(sentenceList), seed \in 0 .. (NumSeeds - 1) }

simulateResultsOf(phonemes, seed) ==
  (CHOOSE t \in simulateResultsMemo : t[1] = phonemes /\ t[2] = seed)[3]

\* Whether the try block ends in the catch: !response.ok, a rejected fetch, a
\* rejected response.json(), or the TypeError of the raw expression.
ReachesCatch(response) ==
  \/ response.kind # "ok"
  \/ RawThrows(response.data)

\* Variant of processRecording whose catch block only logs: C3 depends on the
\* fallback.
processRecordingLogOnly(call, response, seed) ==
  IF ReachesCatch(response)
    THEN [results        |-> results,
          rawPhonemes    |-> rawPhonemes,
          recordingState |-> recordingState,
          substitutions  |-> {}]
    ELSE SuccessUpdates(response.data)

\* processRecording from the resolution of the fetch on: the values the state
\* setters are last called with (the updates of one continuation are batched, so
\* a setResults(data.comparison) followed by the catch is overwritten).
processRecording(call, response, seed) ==
  IF ReachesCatch(response)
    THEN simulateResultsOf(CapturedSentence(call).phonemes, seed)
    ELSE SuccessUpdates(response.data)

\* ------------------------------------------------------------ object URLs

\* URL.createObjectURL(blob) for the recording of call id.
CreateObjectURL(urls, id) == [urls EXCEPT ![id].created = TRUE]

\* Variant of the release in nextSentence and resetSentence that revokes
\* nothing: C9 depends on the revoke.
RevokeNothing(urls, url) == urls

\* if (recordedAudioUrl) URL.revokeObjectURL(recordedAudioUrl);
RevokeRecordedAudio(urls, url) ==
  IF url # 0 THEN [urls EXCEPT ![url].revoked = @ + 1] ELSE urls

\* ------------------------------------------------- Number (IEEE 754 double)

\* The score is computed in JavaScript Numbers: the quotient is rounded to a
\* double, its product with 100 is rounded again, and Math.round rounds the
\* result to an integer.  A positive double is written
\* [mant |-> <<b1, ..., b53>>, exp |-> e] with b1 = 1: the value 0.b1...b53 * 2^e.
\* Long numbers are handled in limbs of LimbWidth bits, most significant first.

\* The bits of a double's significand.
Precision == 53

\* The bits of a limb; three limbs hold a significand.
LimbWidth == 18

Limb == 2 ^ LimbWidth

\* The binary digits of a limb, most significant first.
LimbBits(v) == [i \in 1 .. LimbWidth |-> (v \div (2 ^ (LimbWidth - i))) % 2]

RECURSIVE BitsValue(_)
\* The natural number with the given binary digits (at most a limb).
BitsValue(bits) ==
  IF bits = <<>> THEN 0
  ELSE 2 * BitsValue(SubSeq(bits, 1, Len(bits) - 1)) + bits[Len(bits)]

\* bits + 1 in the same width, for bits that are not all ones.
Incremented(bits) ==
  [i \in 1 .. Len(bits) |->
     IF \A j \in (i + 1) .. Len(bits) : bits[j] = 1 THEN 1 - bits[i] ELSE bits[i]]

\* Round to nearest, ties to even: the double nearest to 0.bits * 2^e, where
\* some bit is 1 and `sticky` tells whether the exact value exceeds 0.bits * 2^e.
RoundToDouble(bits, sticky, e) ==
  LET lead     == CHOOSE i \in 1 .. Len(bits) :
                    bits[i] = 1 /\ \A j \in 1 .. (i - 1) : bits[j] = 0
      Bit(j)   == IF j <= Len(bits) THEN bits[j] ELSE 0
      kept     == [i \in 1 .. Precision |-> Bit(lead - 1 + i)]
      guard    == Bit(lead + Precision)
      rest     == sticky \/ \E j \in (lead + Precision + 1) .. Len(bits) : bits[j] = 1
      up       == guard = 1 /\ (rest \/ kept[Precision] = 1)
      carried  == up /\ \A i \in 1 .. Precision : kept[i] = 1
  IN  [mant |-> IF carried THEN [i \in 1 .. Precision |-> IF i = 1 THEN 1 ELSE 0]
                ELSE IF up THEN Incremented(kept)
                ELSE kept,
       exp  |-> e - (lead - 1) + (IF carried THEN 1 ELSE 0)]

\* num / den in doubles, for integers 0 < num <= den < Limb / 4: four limbs of
\* the binary fraction num / (2 * den), which is at most 1/2, and the remainder.
Divide(num, den) ==
  LET d  == 2 * den
      q1 == (num * Limb) \div d
      r1 == (num * Limb) % d
      q2 == (r1 * Limb) \div d
      r2 == (r1 * Limb) % d
      q3 == (r2 * Limb) \div d
      r3 == (r2 * Limb) % d
      q4 == (r3 * Limb) \div d
      r4 == (r3 * Limb) % d
  IN  RoundToDouble(LimbBits(q1) \o LimbBits(q2) \o LimbBits(q3) \o LimbBits(q4),
                    r4 # 0, 1)

\* d * k in doubles, for a positive double d and an integer 1 <= k < Limb / 4:
\* the significand, as three limbs, times k.
Times(d, k) ==
  LET padded == <<0>> \o d.mant
      m1 == BitsValue(SubSeq(padded, 1, LimbWidth))
      m2 == BitsValue(SubSeq(padded, LimbWidth + 1, 2 * LimbWidth))
      m3 == BitsValue(SubSeq(padded, 2 * LimbWidth + 1, 3 * LimbWidth))
      t3 == m3 * k
      t2 == m2 * k + (t3 \div Limb)
      t1 == m1 * k + (t2 \div Limb)
  IN  RoundToDouble(LimbBits(t1 \div Limb) \o LimbBits(t1 % Limb)
                      \o LimbBits(t2 % Limb) \o LimbBits(t3 % Limb),
                    FALSE, d.exp + 4 * LimbWidth - Precision)

\* Math.round(d) for a positive double d < 2^LimbWidth: the nearest integer, a
\* tie going up.
MathRound(d) ==
  IF d.exp < 0 THEN 0 ELSE BitsValue(SubSeq(d.mant, 1, d.exp)) + d.mant[d.exp + 1]

\* Math.round((correct / total) * 100) for 0 <= correct <= total, total > 0
\* (0 / total is 0, and so are its product and Math.round(0)).
Percentage(correct, total) ==
  IF correct = 0 THEN 0 ELSE MathRound(Times(Divide(correct, total), 100))

\* ------------------------------------------------------------------ score

\* results.filter(r => r.correct).length
CorrectCount(comparison) ==
  Cardinality({i \in 1 .. Len(comparison) : comparison[i].correct})

\* Math.round(0 / 0 * 100), the score of an empty comparison.
NaN == "NaN"

\* const score = results ? Math.round((results.filter(r => r.correct).length /
\* results.length) * 100) : 0, a value of every render.
score ==
  IF Truthy(results)
    THEN IF Len(results[1]) = 0
           THEN NaN
           ELSE Percentage(CorrectCount(results[1]), Len(results[1]))
    ELSE 0

\* ------------------------------------------------------------------ Init

\* A call of startRecording: where it stands, the render its closure captured
\* (index, model) and, as history, whether the session was reset or advanced
\* since its recording was started (stale).  The captured render is dropped once
\* nothing can read it any more.
NoCall == [status |-> "unused", index |-> 0, model |-> "allosaurus", stale |-> FALSE]

CallEnded(status) == [NoCall EXCEPT !.status = status]

\* An /api/analyze request: the form data sent (expected, model) and, as
\* history, the index and model that were current when it was issued.
NoRequest ==
  [status |-> "none", expected |-> <<>>, model |-> "allosaurus",
   issuedIndex |-> 0, issuedModel |-> "allosaurus"]

Init ==
  /\ currentIndex = 0
  /\ recordingState = "idle"
  /\ results = Null
  /\ rawPhonemes = ""
  /\ model = "allosaurus"
  /\ recordedAudioUrl = 0
  /\ mediaRecorderRef = 0
  /\ startRecordingClosure = [index |-> 0, model |-> "allosaurus"]
  /\ calls = [id \in CallIds |-> NoCall]
  /\ requests = [id \in CallIds |-> NoRequest]
  /\ objectUrls = [id \in CallIds |-> [created |-> FALSE, revoked |-> 0]]
  /\ lastResponse = "none"
  /\ substitutionCalls = {}
  /\ nextsTaken = 0
  /\ ignoredStop = "none"
  /\ playingPhoneme = Null
  /\ audioRef = 0
  /\ plays = [id \in 1 .. MaxPlays |-> [status |-> "unused", phoneme |-> "",
                                         speakFailed |-> FALSE, text |-> <<>>]]
  /\ utterances = <<>>
  /\ audioUrls = [id \in 1 .. MaxPlays |-> [created |-> FALSE, revoked |-> 0]]
  /\ playbackRef = 0
  /\ replays = [id \in 1 .. MaxReplays |-> "unused"]

\* ------------------------------------------------------------------ actions

\* The record button: rendered unless the state is results, disabled in
\* processing, and bound to stopRecording in recording.
RecordButtonStarts == recordingState = "idle"

RecordButtonStops == recordingState = "recording"

\* Variant of the render guard of the results panel without `&& results`: C23
\* depends on Next being offered only with a comparison.
ResultsPanelShownInResults == recordingState = "results"

\* The results panel, which holds Try Again and Next.
ResultsPanelShown == recordingState = "results" /\ Truthy(results)

\* The next unused call.
NextCall == Cardinality({id \in CallIds : calls[id].status # "unused"}) + 1

\* A tap that calls startRecording: the memoised closure runs up to the await of
\* getUserMedia.  The call keeps the render its closure captured.
startRecording ==
  /\ RecordButtonStarts
  /\ NextCall \in CallIds
  /\ calls' = [calls EXCEPT ![NextCall] =
                 [status |-> "pending",
                  index  |-> startRecordingClosure.index,
                  model  |-> startRecordingClosure.model,
                  stale  |-> FALSE]]
  /\ UNCHANGED <<currentIndex, recordingState, results, rawPhonemes, model,
                 recordedAudioUrl, mediaRecorderRef, startRecordingClosure,
                 requests, objectUrls, lastResponse, substitutionCalls>>
  /\ UNCHANGED <<nextsTaken, ignoredStop>>
  /\ UNCHANGED playback

\* The state startRecording sets once the recorder is started.
StateAfterGrant == "recording"

\* getUserMedia resolves for call id: the rest of the try block.
getUserMediaResolved(id) ==
  /\ calls[id].status = "pending"
  /\ calls' = [calls EXCEPT ![id].status = "recording"]
  /\ mediaRecorderRef' = id
  /\ recordingState' = StateAfterGrant
  /\ UNCHANGED <<currentIndex, results, rawPhonemes, model, recordedAudioUrl,
                 startRecordingClosure, requests, objectUrls, lastResponse, substitutionCalls>>
  /\ UNCHANGED <<nextsTaken, ignoredStop>>
  /\ UNCHANGED playback

\* Variant of the catch block of startRecording that also resets the state: C8
\* depends on the catch block setting nothing.
StateAfterDenialReset(state) == "idle"

\* The state after the catch block of startRecording (console.error and alert).
StateAfterDenial(state) == state

\* getUserMedia rejects for call id: the catch block.
getUserMediaRejected(id) ==
  /\ calls[id].status = "pending"
  /\ calls' = [calls EXCEPT ![id] = CallEnded("denied")]
  /\ recordingState' = StateAfterDenial(recordingState)
  /\ UNCHANGED <<currentIndex, results, rawPhonemes, model, recordedAudioUrl,
                 mediaRecorderRef, startRecordingClosure, requests, objectUrls, lastResponse, substitutionCalls>>
  /\ UNCHANGED <<nextsTaken, ignoredStop>>
  /\ UNCHANGED playback

\* Variant of the guard of stopRecording that tests the recorder only: C12
\* depends on the test of the state.
stopRecordingGuardRefOnly(ref, state) == ref # 0

\* if (mediaRecorderRef.current && recordingState === 'recording')
stopRecordingGuard(ref, state) == ref # 0 /\ state = "recording"

\* The body of stopRecording.  MediaRecorder.stop() throws on a recorder that is
\* not recording, before setRecordingState is reached.
stopRecordingBody ==
  /\ IF stopRecordingGuard(mediaRecorderRef, recordingState)
          /\ calls[mediaRecorderRef].status = "recording"
       THEN /\ calls' = [calls EXCEPT ![mediaRecorderRef].status = "stopping"]
            /\ recordingState' = "processing"
       ELSE UNCHANGED <<calls, recordingState>>
  /\ UNCHANGED <<currentIndex, results, rawPhonemes, model, recordedAudioUrl,
                 mediaRecorderRef, startRecordingClosure, requests, objectUrls,
                 lastResponse, substitutionCalls, nextsTaken>>
  /\ UNCHANGED playback

\* A tap that calls stopRecording.
stopRecording ==
  /\ RecordButtonStops
  /\ stopRecordingBody
  /\ UNCHANGED ignoredStop

\* stopRecording called while the record button is not bound to it (the state
\* is idle, processing or results): the handler as a function of the state.
stopRecordingUnbound ==
  /\ ~RecordButtonStops
  /\ stopRecordingBody
  /\ ignoredStop' = recordingState

\* setRecordedAudioUrl(url) of onstop: the new value of the handle.
StoredAudioUrl(previous, url) == url

\* mediaRecorder.onstop of call id, up to the await of the fetch: the stream's
\* tracks are stopped, the object URL is created and stored, and
\* processRecording builds and sends the request.
onstop(id) ==
  /\ calls[id].status = "stopping"
  /\ calls' = [calls EXCEPT ![id].status = "inactive"]
  /\ objectUrls' = CreateObjectURL(objectUrls, id)
  /\ recordedAudioUrl' = StoredAudioUrl(recordedAudioUrl, id)
  /\ requests' = [requests EXCEPT ![id] =
                    [status      |-> "inflight",
                     expected    |-> CapturedSentence(calls[id]).phonemes,
                     model       |-> CapturedModel(calls[id]),
                     issuedIndex |-> currentIndex,
                     issuedModel |-> model]]
  /\ UNCHANGED <<currentIndex, recordingState, results, rawPhonemes, model,
                 mediaRecorderRef, startRecordingClosure, lastResponse, substitutionCalls>>
  /\ UNCHANGED <<nextsTaken, ignoredStop>>
  /\ UNCHANGED playback

\* The fetch of call id's request ends with `response`; processRecording runs to
\* its end, the fallback drawing from the Math.random stream `seed`.
analyzeCompleted(id, response, seed) ==
  /\ requests[id].status = "inflight"
  /\ requests' = [requests EXCEPT ![id] = [NoRequest EXCEPT !.status = "done"]]
  /\ lastResponse' = response.kind
  /\ calls' = [calls EXCEPT ![id] = CallEnded("done")]
  /\ \E out \in {processRecording(calls[id], response, seed)} :
       /\ results' = out.results
       /\ rawPhonemes' = out.rawPhonemes
       /\ recordingState' = out.recordingState
       /\ substitutionCalls' = out.substitutions
  /\ UNCHANGED <<currentIndex, model, recordedAudioUrl, mediaRecorderRef,
                 startRecordingClosure, objectUrls>>
  /\ UNCHANGED <<nextsTaken, ignoredStop>>
  /\ UNCHANGED playback

\* The Math.random streams that matter to a response: all of them when the
\* fallback runs, and one when no draw is made.
FallbackSeeds(response) ==
  IF ReachesCatch(response) THEN 0 .. (NumSeeds - 1) ELSE {0}

\* The request of call id ends, in any of the ways it can.
AnalysisEnds(id) ==
  /\ requests[id].status = "inflight"
  /\ \E response \in ResponsesTo(requests[id].expected) :
       \E seed \in FallbackSeeds(response) : analyzeCompleted(id, response, seed)

\* Variant of the index update whose modulus is one short: C13 depends on the
\* modulus being the sentence count.
AdvanceIndexShortCycle(prev) == (prev + 1) % (Len(sentenceList) - 1)

\* setCurrentIndex((prev) => (prev + 1) % sentenceList.length)
AdvanceIndex(prev) == (prev + 1) % Len(sentenceList)

\* Variant of the handle update of nextSentence and resetSentence that keeps
\* the handle: C19 depends on setRecordedAudioUrl(null).
KeptAudioUrl(url) == url

\* setRecordedAudioUrl(null) of nextSentence and resetSentence.
ClearedAudioUrl(url) == 0

\* History: the recordings in progress when the session is reset or advanced.
MarkStale(cs) ==
  [id \in CallIds |->
     IF cs[id].status \in {"recording", "stopping", "inactive"}
       THEN [cs[id] EXCEPT !.stale = TRUE]
       ELSE cs[id]]

nextSentence ==
  /\ ResultsPanelShown
  /\ nextsTaken < MaxNexts
  /\ nextsTaken' = nextsTaken + 1
  /\ objectUrls' = RevokeRecordedAudio(objectUrls, recordedAudioUrl)
  /\ recordedAudioUrl' = ClearedAudioUrl(recordedAudioUrl)
  /\ currentIndex' = AdvanceIndex(currentIndex)
  /\ recordingState' = "idle"
  /\ results' = Null
  /\ rawPhonemes' = ""
  /\ calls' = MarkStale(calls)
  /\ UNCHANGED <<model, mediaRecorderRef, startRecordingClosure, requests,
                 lastResponse, substitutionCalls, ignoredStop>>
  /\ UNCHANGED playback

resetSentence ==
  /\ ResultsPanelShown
  /\ objectUrls' = RevokeRecordedAudio(objectUrls, recordedAudioUrl)
  /\ recordedAudioUrl' = ClearedAudioUrl(recordedAudioUrl)
  /\ recordingState' = "idle"
  /\ results' = Null
  /\ rawPhonemes' = ""
  /\ calls' = MarkStale(calls)
  /\ UNCHANGED <<currentIndex, model, mediaRecorderRef, startRecordingClosure,
                 requests, lastResponse, substitutionCalls>>
  /\ UNCHANGED <<nextsTaken, ignoredStop>>
  /\ UNCHANGED playback

\* useCallback(..., [model]): startRecording is created anew in the render that
\* follows a change of model, and captures that render.
Rememoised(closure, index, oldModel, newModel) ==
  IF newModel # oldModel THEN [index |-> index, model |-> newModel] ELSE closure

\* A model switcher button: setModel(m).
setModel(m) ==
  /\ model' = m
  /\ startRecordingClosure' = Rememoised(startRecordingClosure, currentIndex, model, m)
  /\ UNCHANGED <<currentIndex, recordingState, results, rawPhonemes,
                 recordedAudioUrl, mediaRecorderRef, calls, requests, objectUrls,
                 lastResponse, substitutionCalls>>
  /\ UNCHANGED <<nextsTaken, ignoredStop>>
  /\ UNCHANGED playback

\* ---------------------------------------------------------- phoneme playback

PlayIds == 1 .. MaxPlays

\* A call of playPhoneme: where it stands, its argument (kept while the call can
\* still read it), the text of its utterance and, as history, whether it fell
\* back because the speak request failed.
\*   fetching   awaiting fetch('/api/speak')
\*   reading    awaiting response.blob()
\*   starting   its Audio is created and audio.play() is awaited
\*   aborted    its Audio was paused while audio.play() was awaited: the promise
\*              rejects and the continuation is still to run
\*   sounding   audio.play() resolved and onended is set: the Audio is playing
\*   paused     its Audio was paused while playing; it never ends
\*   speaking   its utterance is in the speechSynthesis queue
\*   silent     it fell back and the symbol has no metadata: nothing was spoken
\*   done       its Audio or its utterance ended
NoPlay == [status |-> "unused", phoneme |-> "", speakFailed |-> FALSE, text |-> <<>>]

PlayEnded(status) == [NoPlay EXCEPT !.status = status]

\* The chips that are tapped: the first MaxChip of each row of the results panel.
Chips ==
  IF ResultsPanelShown
    THEN {i \in 1 .. Len(results[1]) : i <= MaxChip}
    ELSE {}

\* The symbols playPhoneme is called with: onClick={() => result.actual &&
\* playPhoneme(result.actual)} and onClick={() => playPhoneme(result.expected)}.
ChipSymbols ==
  {results[1][i].expected : i \in Chips}
  \cup {results[1][i].actual : i \in {j \in Chips : results[1][j].actual # NoActual}}

\* The next unused call.
NextPlay == Cardinality({id \in PlayIds : plays[id].status # "unused"}) + 1

\* String.prototype.split(',')[0]: the characters before the first comma.
BeforeFirstComma(chars) ==
  LET commas == {i \in 1 .. Len(chars) : chars[i] = ","}
  IN  IF commas = {}
        THEN chars
        ELSE SubSeq(chars, 1, (CHOOSE i \in commas : \A j \in commas : i <= j) - 1)

\* String.prototype.trim(): without the white space at both ends.
Trim(chars) ==
  LET inked == {i \in 1 .. Len(chars) : chars[i] # " "}
  IN  IF inked = {}
        THEN <<>>
        ELSE SubSeq(chars, CHOOSE i \in inked : \A j \in inked : i <= j,
                           CHOOSE i \in inked : \A j \in inked : i >= j)

\* Variant of the utterance text that is the whole example text: C16 depends on
\* the split.
ExampleWordWhole(info) == info.example

\* const exampleWord = info.example.split(',')[0].trim()
ExampleWord(info) == Trim(BeforeFirstComma(info.example))

\* playPhoneme up to the await of the fetch, for a tap on a chip.
playPhoneme(phoneme) ==
  /\ phoneme \in ChipSymbols
  /\ NextPlay \in PlayIds
  /\ playingPhoneme' = Some(phoneme)
  /\ plays' = [plays EXCEPT ![NextPlay] =
                 [NoPlay EXCEPT !.status = "fetching", !.phoneme = phoneme]]
  /\ UNCHANGED <<audioRef, utterances, audioUrls, playbackRef, replays>>
  /\ UNCHANGED session

\* Variant of the else branch of the fallback that leaves the marker as it is:
\* C17 depends on the setPlayingPhoneme(null) of that branch.
MarkerWithoutMetadataKept(marker) == marker

\* } else { setPlayingPhoneme(null); }
MarkerWithoutMetadata(marker) == Null

\* The end of playPhoneme after the try block: on-device synthesis of the
\* example word when the symbol has metadata, else setPlayingPhoneme(null).
fallback(id, speakFailed) ==
  IF plays[id].phoneme \in DOMAIN phonemeInfo
    THEN /\ plays' = [plays EXCEPT ![id] =
                        [@ EXCEPT !.status = "speaking", !.speakFailed = speakFailed,
                                  !.text = ExampleWord(phonemeInfo[plays[id].phoneme])]]
         /\ utterances' = Append(utterances, id)
         /\ UNCHANGED playingPhoneme
    ELSE /\ plays' = [plays EXCEPT ![id] =
                        [PlayEnded("silent") EXCEPT !.speakFailed = speakFailed]]
         /\ playingPhoneme' = MarkerWithoutMetadata(playingPhoneme)
         /\ UNCHANGED utterances

\* The fetch of /api/speak of call id ends: a success response ("ok"), another
\* status, or a rejected fetch.
speakCompleted(id, outcome) ==
  /\ plays[id].status = "fetching"
  /\ IF outcome = "ok"
       THEN /\ plays' = [plays EXCEPT ![id].status = "reading"]
            /\ UNCHANGED <<playingPhoneme, utterances>>
       ELSE fallback(id, TRUE)
  /\ UNCHANGED <<audioRef, audioUrls, playbackRef, replays>>
  /\ UNCHANGED session

speakEnds(id) ==
  \E outcome \in {"ok", "status", "transport"} : speakCompleted(id, outcome)

\* audioRef.current.pause(), on the Audio of an earlier call.
Paused(play) ==
  IF play.status = "starting" THEN [play EXCEPT !.status = "aborted"]
  ELSE IF play.status = "sounding" THEN PlayEnded("paused")
  ELSE play

\* response.blob() of call id ends.  When it resolves, the object URL is
\* created, the Audio in audioRef is paused, and the new Audio is stored and
\* asked to play.
blobCompleted(id, ok) ==
  /\ plays[id].status = "reading"
  /\ IF ok
       THEN /\ audioUrls' = [audioUrls EXCEPT ![id].created = TRUE]
            /\ plays' = [p \in PlayIds |->
                           IF p = id THEN [plays[id] EXCEPT !.status = "starting"]
                           ELSE IF p = audioRef THEN Paused(plays[p])
                           ELSE plays[p]]
            /\ audioRef' = id
            /\ UNCHANGED <<playingPhoneme, utterances>>
       ELSE /\ fallback(id, FALSE)
            /\ UNCHANGED <<audioRef, audioUrls>>
  /\ UNCHANGED <<playbackRef, replays>>
  /\ UNCHANGED session

blobEnds(id) == \E ok \in BOOLEAN : blobCompleted(id, ok)

\* audio.play() of call id settles: it resolves (onended is set), or it rejects,
\* as it does when the Audio was paused meanwhile, and the catch block runs.
playCompleted(id, ok) ==
  /\ plays[id].status \in {"starting", "aborted"}
  /\ ok => plays[id].status = "starting"
  /\ IF ok
       THEN /\ plays' = [plays EXCEPT ![id] = PlayEnded("sounding")]
            /\ UNCHANGED <<playingPhoneme, utterances>>
       ELSE fallback(id, FALSE)
  /\ UNCHANGED <<audioRef, audioUrls, playbackRef, replays>>
  /\ UNCHANGED session

playSettles(id) == \E ok \in BOOLEAN : playCompleted(id, ok)

\* The Audio of call id plays to its end: audio.onended.
onended(id) ==
  /\ plays[id].status = "sounding"
  /\ audioUrls' = [audioUrls EXCEPT ![id].revoked = @ + 1]
  /\ playingPhoneme' = Null
  /\ plays' = [plays EXCEPT ![id] = PlayEnded("done")]
  /\ UNCHANGED <<audioRef, utterances, playbackRef, replays>>
  /\ UNCHANGED session

\* The utterance at the head of the speechSynthesis queue is spoken to its end:
\* utterance.onend.
onend ==
  /\ utterances # <<>>
  /\ playingPhoneme' = Null
  /\ plays' = [plays EXCEPT ![Head(utterances)] = PlayEnded("done")]
  /\ utterances' = Tail(utterances)
  /\ UNCHANGED <<audioRef, audioUrls, playbackRef, replays>>
  /\ UNCHANGED session

\* ------------------------------------------------------------------- replay

ReplayIds == 1 .. MaxReplays

NextReplay == Cardinality({id \in ReplayIds : replays[id] # "unused"}) + 1

\* Variant of playbackRef.current.pause() that pauses nothing: C18 depends on
\* the pause.
ReplayNotPaused(status) == status

\* playbackRef.current.pause(), on the Audio of an earlier replay ("over": an
\* Audio that was paused or has played to its end).
ReplayPaused(status) == IF status = "sounding" THEN "over" ELSE status

\* The Replay button, rendered in the results panel when recordedAudioUrl is set.
ReplayButtonShown == ResultsPanelShown /\ recordedAudioUrl # 0

\* replayRecording, for a tap on Replay.
replayRecording ==
  /\ ReplayButtonShown
  /\ NextReplay \in ReplayIds
  /\ IF recordedAudioUrl # 0
       THEN /\ replays' = [r \in ReplayIds |->
                             IF r = NextReplay THEN "sounding"
                             ELSE IF r = playbackRef THEN ReplayPaused(replays[r])
                             ELSE replays[r]]
            /\ playbackRef' = NextReplay
       ELSE UNCHANGED <<replays, playbackRef>>
  /\ UNCHANGED <<playingPhoneme, audioRef, plays, utterances, audioUrls>>
  /\ UNCHANGED session

\* The Audio of replay id plays to its end.
replayEnded(id) ==
  /\ replays[id] = "sounding"
  /\ replays' = [replays EXCEPT ![id] = "over"]
  /\ UNCHANGED <<playingPhoneme, audioRef, plays, utterances, audioUrls, playbackRef>>
  /\ UNCHANGED session

\* ----------------------------------------------------------- specifications

Next ==
  \/ startRecording
  \/ \E id \in CallIds : getUserMediaResolved(id)
  \/ \E id \in CallIds : getUserMediaRejected(id)
  \/ stopRecording
  \/ \E id \in CallIds : onstop(id)
  \/ \E id \in CallIds : AnalysisEnds(id)
  \/ nextSentence
  \/ resetSentence
  \/ \E m \in ModelType : setModel(m)

Spec == Init /\ [][Next]_vars

\* The browser delivers the stop event of a stopped recorder, and the analysis
\* request is assumed to complete.
FairSpec ==
  /\ Spec
  /\ \A id \in CallIds : WF_vars(onstop(id))
  /\ \A id \in CallIds : WF_vars(AnalysisEnds(id))

\* The session, with stopRecording also called in the states in which the
\* button does not call it.
StopNext ==
  \/ Next
  \/ stopRecordingUnbound

StopSpec == Init /\ [][StopNext]_vars

\* No call of startRecording is under way.
NoCallUnderWay ==
  \A id \in CallIds : calls[id].status \in {"unused", "done", "denied"}

\* A tap that calls startRecording, by a user who lets every attempt end before
\* the next tap.  The bookkeeping of the ended call is reused for the new one.
startRecordingAlone ==
  /\ RecordButtonStarts
  /\ NoCallUnderWay
  /\ calls' = [calls EXCEPT ![1] =
                 [status |-> "pending",
                  index  |-> startRecordingClosure.index,
                  model  |-> startRecordingClosure.model,
                  stale  |-> FALSE]]
  /\ requests' = [requests EXCEPT ![1] = NoRequest]
  /\ objectUrls' = [objectUrls EXCEPT ![1] = [created |-> FALSE, revoked |-> 0]]
  /\ UNCHANGED <<currentIndex, recordingState, results, rawPhonemes, model,
                 recordedAudioUrl, mediaRecorderRef, startRecordingClosure,
                 lastResponse, substitutionCalls, nextsTaken, ignoredStop>>
  /\ UNCHANGED playback

\* The session of a user who lets every attempt end before the next tap, over
\* any number of attempts.
WalkNext ==
  \/ startRecordingAlone
  \/ \E id \in CallIds : getUserMediaResolved(id)
  \/ \E id \in CallIds : getUserMediaRejected(id)
  \/ stopRecording
  \/ \E id \in CallIds : onstop(id)
  \/ \E id \in CallIds : AnalysisEnds(id)
  \/ nextSentence
  \/ resetSentence
  \/ \E m \in ModelType : setModel(m)

WalkSpec == Init /\ [][WalkNext]_vars

\* A comparison of `total` entries of which the first `correct` are judged
\* correct and the others have no actual phoneme, over the phonemes of the
\* first sentence repeated.
Judgement(total, correct) ==
  [i \in 1 .. total |->
     LET p == SentenceAt(0).phonemes[((i - 1) % Len(SentenceAt(0).phonemes)) + 1]
     IN  [expected |-> p,
          actual   |-> IF i <= correct THEN p ELSE NoActual,
          correct  |-> i <= correct]]

\* The success responses that carry such a comparison, with the recognised
\* phonemes as `phonemes`.
JudgedResponses ==
  { [kind |-> "ok",
     data |-> [comparison |-> Some(Judgement(total, correct)),
               raw        |-> Null,
               phonemes   |-> Some(SubSeq(SentenceAt(0).phonemes, 1, 0))]]
      : <<total, correct>> \in
          { t \in (1 .. MaxTotal) \X (0 .. MaxTotal) : t[2] <= t[1] } }

\* The request of call id ends with one of these responses.
AnalysisEndsJudged(id) ==
  /\ requests[id].status = "inflight"
  /\ \E response \in JudgedResponses : analyzeCompleted(id, response, 0)

\* The session of a user who lets every attempt end before the next tap, the
\* backend answering with a comparison of any size and any number of entries
\* judged correct.
ScoreNext ==
  \/ startRecordingAlone
  \/ \E id \in CallIds : getUserMediaResolved(id)
  \/ stopRecording
  \/ \E id \in CallIds : onstop(id)
  \/ \E id \in CallIds : AnalysisEndsJudged(id)
  \/ resetSentence

ScoreSpec == Init /\ [][ScoreNext]_vars

\* One attempt of a user who then taps phoneme chips in the results panel.
PlayNext ==
  \/ startRecordingAlone
  \/ \E id \in CallIds : getUserMediaResolved(id)
  \/ stopRecording
  \/ \E id \in CallIds : onstop(id)
  \/ \E id \in CallIds : AnalysisEnds(id)
  \/ \E phoneme \in ChipSymbols : playPhoneme(phoneme)
  \/ \E id \in PlayIds : speakEnds(id)
  \/ \E id \in PlayIds : blobEnds(id)
  \/ \E id \in PlayIds : playSettles(id)
  \/ \E id \in PlayIds : onended(id)
  \/ onend

PlaySpec == Init /\ [][PlayNext]_vars

\* A step that a call of playPhoneme is waiting for: its request to the backend
\* completes, a promise it awaits settles, or its playback ends.
PlaybackProceeds ==
  \/ \E id \in PlayIds : speakEnds(id) \/ blobEnds(id) \/ playSettles(id) \/ onended(id)
  \/ onend

\* Every request to the backend completes, every promise settles, and every
\* playback that is started and not stopped ends.  (The calls are finitely many
\* and each takes finitely many steps, so that fairness to the steps together is
\* fairness to each.)
FairPlaySpec == PlaySpec /\ WF_vars(PlaybackProceeds)

\* The same, with taps on Replay.
ReplayNext ==
  \/ PlayNext
  \/ replayRecording
  \/ \E id \in ReplayIds : replayEnded(id)

ReplaySpec == Init /\ [][ReplayNext]_vars

\* The first tap on a phoneme chip.
firstPlayPhoneme(phoneme) == NextPlay = 1 /\ playPhoneme(phoneme)

\* The first tap on Replay.
firstReplayRecording == NextReplay = 1 /\ replayRecording

\* Every operation of the application: the session, with overlapping
\* recordings, of a user who taps one phoneme chip and replays one attempt.
AppNext ==
  \/ Next
  \/ \E phoneme \in ChipSymbols : firstPlayPhoneme(phoneme)
  \/ \E id \in PlayIds : speakEnds(id)
  \/ \E id \in PlayIds : blobEnds(id)
  \/ \E id \in PlayIds : playSettles(id)
  \/ \E id \in PlayIds : onended(id)
  \/ onend
  \/ firstReplayRecording
  \/ \E id \in ReplayIds : replayEnded(id)

AppSpec == Init /\ [][AppNext]_vars

\* ------------------------------------------------------------ step predicates

\* The step is the end of call id's analysis request.
AnalysisEndStep(id) ==
  requests[id].status = "inflight" /\ requests'[id].status = "done"

\* The step is getUserMedia rejecting for call id.
DenialStep(id) == calls[id].status = "pending" /\ calls'[id].status = "denied"

\* The step is getUserMedia resolving for call id.
GrantStep(id) == calls[id].status = "pending" /\ calls'[id].status = "recording"

\* The step is the stop event of call id's recorder.
OnStopStep(id) == calls[id].status = "stopping" /\ calls'[id].status = "inactive"

\* The step is a Try Again or a Next: no other action leaves results for idle.
ResetStep == recordingState = "results" /\ recordingState' = "idle"

\* ------------------------------------------------------------------ claims

\* C1: the lifecycle state changes only by the transitions of the table: idle to
\* recording, recording to processing, processing to results, results to idle.
C1_OnlyTableTransitions ==
  [][recordingState' # recordingState =>
       <<recordingState, recordingState'>> \in
         { <<"idle", "recording">>, <<"recording", "processing">>,
           <<"processing", "results">>, <<"results", "idle">> }]_vars

\* C2: in every reachable state the comparison is present if and only if the
\* lifecycle state is results.
C2_ComparisonIffResults == Truthy(results) <=> recordingState = "results"

\* C3: whenever the lifecycle state is processing it eventually becomes results,
\* given that stop events are delivered and analysis requests complete.
C3_ProcessingLeadsToResults ==
  (recordingState = "processing") ~> (recordingState = "results")

\* C3 witness: results reached from processing by the local fallback.
C3_Witness ==
  /\ recordingState = "results"
  /\ lastResponse \in {"status", "transport"}
  /\ results = simulateResultsOf(SentenceAt(0).phonemes, 0).results

\* C4: after any analysis completion the stored comparison has the same length
\* as the expected-phoneme sequence of the sentence at the current index.
C4_ComparisonLengthOfCurrentSentence ==
  (recordingState = "results" /\ Truthy(results)) =>
     Len(results[1]) = Len(SentenceAt(currentIndex).phonemes)

\* C5: every analyze request carries as `expected` the expected-phoneme sequence
\* of the sentence that is current when the request is issued.
C5_ExpectedOfCurrentSentence ==
  \A id \in CallIds :
    requests[id].status = "inflight" =>
      requests[id].expected = SentenceAt(requests[id].issuedIndex).phonemes

\* C6: an analysis response that arrives after the session was reset or advanced
\* since its recording was made stores no comparison, raw output or state.
C6_StaleResponseDiscarded ==
  [][\A id \in CallIds :
       (AnalysisEndStep(id) /\ calls[id].stale) =>
          UNCHANGED <<results, rawPhonemes, recordingState>>]_vars

\* The alternates the substitution table lists for a phoneme.
Alternates(p) ==
  IF p \in DOMAIN substitutions
    THEN {substitutions[p][i] : i \in 1 .. Len(substitutions[p])}
    ELSE {}

\* C7: when the analyze request gets a non-success response or fails in
\* transport, the comparison stored has one entry per phoneme of the request's
\* expected sequence, in order, with that phoneme as expected and that phoneme or
\* one of its alternates as actual; the raw output is the actual values joined
\* and is not empty; and the state becomes results.
C7_FallbackComparison ==
  [][\A id \in CallIds :
       (AnalysisEndStep(id) /\ lastResponse' \in {"status", "transport"}) =>
          /\ recordingState' = "results"
          /\ Truthy(results')
          /\ Len(results'[1]) = Len(requests[id].expected)
          /\ \A i \in 1 .. Len(requests[id].expected) :
               /\ results'[1][i].expected = requests[id].expected[i]
               /\ results'[1][i].actual \in
                    {requests[id].expected[i]} \cup Alternates(requests[id].expected[i])
          /\ rawPhonemes' = Join([i \in 1 .. Len(results'[1]) |-> results'[1][i].actual])
          /\ rawPhonemes' # ""]_vars

\* C7 witness: a failed request has ended in results with a fabricated
\* comparison in which some actual is a substitution.
C7_Witness ==
  /\ recordingState = "results"
  /\ lastResponse \in {"status", "transport"}
  /\ Truthy(results)
  /\ \E i \in 1 .. Len(results[1]) : results[1][i].actual # results[1][i].expected
  /\ rawPhonemes # ""

\* C8: a denied microphone request changes no session field and no recorder,
\* from idle the state stays idle, and a request granted after a denial still
\* starts a recording.
C8_DenialChangesNothing ==
  [][\A id \in CallIds :
       /\ DenialStep(id) =>
            /\ UNCHANGED <<currentIndex, recordingState, results, rawPhonemes,
                           model, recordedAudioUrl, mediaRecorderRef>>
            /\ recordingState = "idle" => recordingState' = "idle"
       /\ (GrantStep(id) /\ \E d \in CallIds : calls[d].status = "denied") =>
            /\ recordingState' = "recording"
            /\ mediaRecorderRef' = id]_vars

\* C8 witness: one request was denied in idle and a recording started after it.
C8_Witness ==
  /\ recordingState = "recording"
  /\ \E d, r \in CallIds :
       /\ calls[d].status = "denied"
       /\ calls[r].status = "recording"
       /\ mediaRecorderRef = r

\* C9: each Try Again or Next releases the recorded-audio resource the session
\* holds exactly once, releases no other, and leaves the handle absent; no
\* resource is ever released twice.
C9_ReleaseExactlyOnce ==
  [][/\ ResetStep =>
          /\ recordedAudioUrl' = 0
          /\ \A u \in CallIds :
               objectUrls'[u].revoked =
                 objectUrls[u].revoked + (IF u = recordedAudioUrl THEN 1 ELSE 0)
     /\ \A u \in CallIds : objectUrls'[u].revoked <= 1]_vars

\* C9 witness: a recorded-audio resource was released by a reset and the handle
\* is absent.
C9_Witness ==
  /\ recordingState = "idle"
  /\ recordedAudioUrl = 0
  /\ \E u \in CallIds : objectUrls[u].created /\ objectUrls[u].revoked = 1

\* C10: whenever the handle is replaced by that of a newly finished recording,
\* the previous handle is absent or has already been released.
C10_PreviousHandleReleased ==
  [][\A id \in CallIds :
       OnStopStep(id) =>
          (recordedAudioUrl = 0 \/ objectUrls[recordedAudioUrl].revoked >= 1)]_vars

\* C11: the stop event of a recorder releases the stream its start acquired,
\* whatever becomes of the analysis request, and in results no stream acquired
\* by any start is open.
C11_StreamsReleased ==
  /\ [][\A id \in CallIds : OnStopStep(id) => ~StreamOpen(calls'[id])]_vars
  /\ [](recordingState = "results" => \A id \in CallIds : ~StreamOpen(calls[id]))

\* C20: every analyze request carries as model the model that is selected when
\* the request is issued.
C20_ModelOfIssueTime ==
  \A id \in CallIds :
    requests[id].status = "inflight" => requests[id].model = requests[id].issuedModel

\* The session fields, the recorders and the requests.
sessionAndRecorders ==
  <<currentIndex, recordingState, results, rawPhonemes, model, recordedAudioUrl,
    mediaRecorderRef, calls, requests, objectUrls>>

\* C12: stopRecording called in idle, processing or results (so also a second
\* time after a stop) stops no recorder, issues no request and changes no
\* session field.
C12_StopOnlyWhenRecording ==
  [][(ignoredStop' # ignoredStop \/ stopRecordingUnbound) =>
        UNCHANGED sessionAndRecorders]_vars

\* C12 witness: stopRecording was called a second time, in processing, while the
\* stopped recorder's stop event was still to come.
C12_Witness ==
  /\ ignoredStop = "processing"
  /\ recordingState = "processing"
  /\ \E id \in CallIds : calls[id].status = "stopping"

\* C13: every Next sets the index to (index + 1) modulo the sentence count, so
\* from the last index to 0; the index is always within 0 .. count - 1; and it
\* is the number of Next actions modulo the count, so that count of them in a
\* row bring it back to where it was.
C13_NextWraps ==
  [][/\ currentIndex' \in 0 .. (Len(sentenceList) - 1)
     /\ nextsTaken' # nextsTaken =>
          /\ currentIndex' = (currentIndex + 1) % Len(sentenceList)
          /\ currentIndex = Len(sentenceList) - 1 => currentIndex' = 0
     /\ currentIndex' = nextsTaken' % Len(sentenceList)]_vars

\* C13 witness: as many Next actions as there are sentences were taken and the
\* index is back at its starting value.
C13_Witness ==
  /\ nextsTaken = Len(sentenceList)
  /\ currentIndex = 0

\* C19: after a Try Again or a Next the state is idle, the comparison absent,
\* the raw output empty and the recorded-audio handle absent; Try Again leaves
\* the index unchanged and both leave the model unchanged.
C19_ResetFrame ==
  [][(nextSentence \/ resetSentence) =>
        /\ recordingState' = "idle"
        /\ results' = Null
        /\ rawPhonemes' = ""
        /\ recordedAudioUrl' = 0
        /\ model' = model
        /\ nextsTaken' = nextsTaken => currentIndex' = currentIndex]_vars

\* C19 witness: a Try Again was taken at the first sentence with wav2vec2
\* selected, and the session is reset.
C19_Witness ==
  /\ recordingState = "idle"
  /\ results = Null
  /\ rawPhonemes = ""
  /\ recordedAudioUrl = 0
  /\ nextsTaken = 0
  /\ model = "wav2vec2"
  /\ \E u \in CallIds : objectUrls[u].revoked = 1

\* C14: the score of a non-empty comparison is round(100 * correctCount /
\* total) (the nearest integer, a tie going up), lies in 0 .. 100, is 100 when
\* every entry is correct and 0 when none is; without a comparison it is 0.
C14_Score ==
  /\ ~Truthy(results) => score = 0
  /\ (Truthy(results) /\ Len(results[1]) > 0) =>
       LET total   == Len(results[1])
           correct == CorrectCount(results[1])
       IN  /\ score \in 0 .. 100
           /\ score = (200 * correct + total) \div (2 * total)
           /\ correct = total => score = 100
           /\ correct = 0 => score = 0

\* The phoneme audio that is sounding: the Audio objects of the speak responses
\* that are playing, and the utterance the speechSynthesis queue is speaking.
SoundingPhonemeAudio ==
  Cardinality({id \in PlayIds : plays[id].status = "sounding"})
    + (IF utterances # <<>> THEN 1 ELSE 0)

\* C15: at most one phoneme audio, synthesized by the backend or on the device,
\* is sounding at any time, for every interleaving of play requests with speak
\* responses and speak failures.
C15_OnePhonemeAudio == SoundingPhonemeAudio <= 1

\* token is the first comma-separated token of chars: it holds no comma, and
\* chars is token, or token followed by a comma and more.
FirstCommaSeparatedToken(token, chars) ==
  /\ \A i \in 1 .. Len(token) : token[i] # ","
  /\ Len(token) <= Len(chars)
  /\ SubSeq(chars, 1, Len(token)) = token
  /\ Len(token) < Len(chars) => chars[Len(token) + 1] = ","

\* The speak request of call id fails in this step: the call leaves the await
\* of the fetch without a success response.
SpeakFailsStep(id) ==
  /\ plays[id].status = "fetching"
  /\ plays'[id].status \notin {"fetching", "reading"}

\* C16: when the speak request for a symbol fails and the symbol has metadata,
\* on-device synthesis is invoked with the first comma-separated token of its
\* example text; when it has no metadata, no synthesis is invoked and the
\* currently-playing marker is cleared.
C16_SpeakFailureFallback ==
  [][\A id \in PlayIds :
       SpeakFailsStep(id) =>
         IF plays[id].phoneme \in DOMAIN phonemeInfo
           THEN /\ utterances' = Append(utterances, id)
                /\ plays'[id].status = "speaking"
                /\ FirstCommaSeparatedToken(plays'[id].text,
                                            phonemeInfo[plays[id].phoneme].example)
           ELSE /\ utterances' = utterances
                /\ plays'[id].status = "silent"
                /\ playingPhoneme' = Null]_vars

\* C16 witness: the speak request failed for a symbol with metadata, whose
\* example text has several tokens and whose first token is being spoken, and
\* for a symbol without metadata, for which nothing is spoken.
C16_Witness ==
  /\ \E id \in PlayIds :
       /\ plays[id].speakFailed
       /\ plays[id].status = "speaking"
       /\ plays[id].text = <<"t", "h", "e">>
       /\ plays[id].text # phonemeInfo[plays[id].phoneme].example
       /\ utterances = <<id>>
  /\ \E id \in PlayIds :
       /\ plays[id].speakFailed
       /\ plays[id].status = "silent"
  /\ playingPhoneme = Null

\* C17: whenever the currently-playing marker is set, as it is by every play
\* request, it is cleared later, provided that every speak request and every
\* read of a response completes and every Audio and utterance that is started
\* and not stopped ends; so also when a newer request interrupts a playback.
C17_MarkerEventuallyCleared == (playingPhoneme # Null) ~> (playingPhoneme = Null)

\* C17 witness: the Audio of one call was paused by a newer call while it was
\* playing, the Audio of the newer call has played to its end, no call is under
\* way and the marker is cleared.
C17_Witness ==
  /\ \E old \in PlayIds : plays[old].status = "paused"
  /\ audioRef # 0
  /\ plays[audioRef].status = "done"
  /\ \A id \in PlayIds : plays[id].status \in {"paused", "done", "silent"}
  /\ playingPhoneme = Null

\* The replays whose Audio is playing.
SoundingReplays == {id \in ReplayIds : replays[id] = "sounding"}

\* A replay of the recorded attempt starts in this step: a new Audio is stored
\* in playbackRef.
ReplayStartsStep == playbackRef' # playbackRef

\* C18: a replay of the recorded attempt changes neither the currently-playing
\* marker nor the phoneme playback (its Audio objects, its utterances, its
\* object URLs), it stops the previous replay before the new one starts, and at
\* most one replay is sounding at any time.
C18_ReplayIndependent ==
  /\ [][ReplayStartsStep =>
          /\ UNCHANGED <<playingPhoneme, audioRef, plays, utterances, audioUrls>>
          /\ \A id \in ReplayIds : id # playbackRef' => replays'[id] # "sounding"
          /\ replays'[playbackRef'] = "sounding"]_vars
  /\ [](Cardinality(SoundingReplays) <= 1)

\* C18 witness: a second replay was started while a phoneme was playing and
\* marked; the phoneme is still marked and playing, the second replay is
\* sounding and the first is not.
C18_Witness ==
  /\ playbackRef = 2
  /\ SoundingReplays = {2}
  /\ replays[1] = "over"
  /\ playingPhoneme # Null
  /\ audioRef # 0
  /\ plays[audioRef].status = "sounding"

\* The symbols of the sentence list and of the substitution table.
Symbols ==
  UNION {{sentenceList[i].phonemes[j] : j \in 1 .. Len(sentenceList[i].phonemes)}
           : i \in 1 .. Len(sentenceList)}
    \cup DOMAIN substitutions
    \cup UNION {Alternates(p) : p \in DOMAIN substitutions}

\* `returned` is what the heuristic may return for `phoneme`: the phoneme when
\* the table has no entry for it, else one of the alternates listed for it.
SubstitutionFor(phoneme, returned) ==
  IF phoneme \in DOMAIN substitutions
    THEN returned \in Alternates(phoneme)
    ELSE returned = phoneme

\* C21: the substitution heuristic returns its argument when the phoneme has no
\* entry in the substitution table and else one of the alternates listed for
\* the phoneme, for every symbol and every draw and in every call the program
\* makes; and it is called only by the end of an analysis request that stores
\* the fabricated comparison, whose entries the calls belong to.
C21_SubstitutionHeuristic ==
  /\ [](\A p \in Symbols : \A n \in 0 .. (RandLevels - 1) :
          SubstitutionFor(p, getRandomSubstitution(p, n)))
  /\ [](\A c \in substitutionCalls : SubstitutionFor(c.phoneme, c.returned))
  /\ [][substitutionCalls' # substitutionCalls =>
          \E id \in CallIds :
            /\ AnalysisEndStep(id)
            /\ substitutionCalls' # {} =>
                 /\ recordingState' = "results"
                 /\ Truthy(results')
                 /\ Len(results'[1]) = Len(requests[id].expected)
                 /\ \A i \in 1 .. Len(results'[1]) :
                      results'[1][i].expected = requests[id].expected[i]
                 /\ \A c \in substitutionCalls' :
                      \E i \in 1 .. Len(results'[1]) :
                        /\ results'[1][i].expected = c.phoneme
                        /\ results'[1][i].actual = c.returned]_vars

\* C21 witness: the last analysis request failed, and the heuristic was called
\* for a phoneme that has an entry, returning an alternate, and for a phoneme
\* that has none, returning the phoneme.
C21_Witness ==
  /\ lastResponse \in {"status", "transport", "json"}
  /\ \E c \in substitutionCalls :
       c.phoneme \in DOMAIN substitutions /\ c.returned # c.phoneme
  /\ \E c \in substitutionCalls :
       c.phoneme \notin DOMAIN substitutions /\ c.returned = c.phoneme

\* The analysis requests in flight.
RequestsInFlight == {id \in CallIds : requests[id].status = "inflight"}

\* C22: at most one analysis request is in flight at any time, and while one is
\* in flight the state is processing, for every interleaving of record taps,
\* pending permission requests, stop taps and responses.
C22_OneAnalysisInFlight ==
  /\ Cardinality(RequestsInFlight) <= 1
  /\ RequestsInFlight # {} => recordingState = "processing"

\* C23: the sentence index changes only in a Next action, taken in results with
\* a comparison present; record and stop taps, permission outcomes, analysis
\* completions, Try Again, model switches, phoneme playback and replay leave it
\* unchanged.
C23_IndexChangesOnlyByNext ==
  [][/\ currentIndex' # currentIndex =>
          /\ nextsTaken' = nextsTaken + 1
          /\ recordingState = "results"
          /\ Truthy(results)
     /\ nextsTaken' = nextsTaken => currentIndex' = currentIndex
     /\ nextsTaken' # nextsTaken => recordingState = "results" /\ Truthy(results)]_vars

\* C23 witness: one Next was taken, in results, and the index is 1; a phoneme was
\* played and the attempt replayed, the other model was chosen, and a second
\* recording was made and stopped and is being analysed.
C23_Witness ==
  /\ currentIndex = 1
  /\ nextsTaken = 1
  /\ model = "wav2vec2"
  /\ recordingState = "processing"
  /\ RequestsInFlight # {}
  /\ \E id \in PlayIds : plays[id].status = "done"
  /\ \E id \in ReplayIds : replays[id] = "over"

\* C24: every object URL created for the audio of a speak response is revoked
\* later, and none is revoked more than once, also when the playback is stopped
\* by a newer play request or fails to start.
C24_SynthesizedAudioReleasedOnce ==
  /\ [](\A id \in PlayIds : audioUrls[id].revoked <= 1)
  /\ \A id \in PlayIds : audioUrls[id].created ~> (audioUrls[id].revoked = 1)

====
